---------------------------- MODULE Spec2Model ----------------------------
(***************************************************************************)
(* A model of the network diagnostic scripts of the Vaughan wallet:         *)
(*   tools/debug/network_debug.py       (prog = "async", class              *)
(*                                       NetworkDiagnostic)                 *)
(*   tools/debug/simple_network_test.py (prog = "sync")                     *)
(*   tools/debug/find_accounts.py       (prog = "find")                     *)
(* One behaviour is one run of one script.  The network, the local system   *)
(* and the user are the environment: every probe, RPC response, system      *)
(* read and typed address is chosen nondeterministically by the action      *)
(* that consumes it.                                                        *)
(***************************************************************************)
EXTENDS Integers, Sequences, FiniteSets, TLC

\* Number of entries of PULSECHAIN_TESTNET_RPCS the model runs with.
NumEndpoints == 2

Endpoints == 1..NumEndpoints

\* The most deviations from the nominal answer (a failed probe, an RPC
\* response that is not a well-formed result of the expected chain) the
\* environment injects in one run.
MaxFaults == 3

\* The chain id both scripts compare against (PulseChain Testnet v4).
ExpectedChainId == 943

\* A chain id a server of another network reports.
OtherChainId == 1

\* The fixed battery, in the order the code issues it.
Methods == <<"web3_clientVersion", "eth_chainId", "eth_getBalance", "eth_blockNumber">>

NumMethods == Len(Methods)

\* The "id" every JSON-RPC request of the scripts carries.
RequestId == 1

(***************************************************************************)
(* What the environment can answer to one JSON-RPC POST.                    *)
(*   exc       the request raised (timeout, refusal, reset, bad JSON body)  *)
(*   http_err  a response whose status is not 200                           *)
(*   no_result status 200, a JSON object without a "result" member          *)
(*   empty     status 200, "result" present but null or ""                  *)
(*   bad_hex   status 200, "result" a string that is no hex number          *)
(*   ok        status 200, "result" a well-formed value; for eth_chainId    *)
(*             the chain id is given by the response's chain field          *)
(***************************************************************************)
ResponseKinds == {"exc", "http_err", "no_result", "empty", "bad_hex", "ok"}

Responses == [kind : ResponseKinds \ {"ok"}, chain : {0}]
             \cup [kind : {"ok"}, chain : {ExpectedChainId, OtherChainId}]

\* The answer of a healthy endpoint of the expected network.
Nominal == [kind |-> "ok", chain |-> ExpectedChainId]

NoResponse == [kind |-> "none", chain |-> 0]

\* The answers to a DNS, TLS or HTTP probe: it went through, or something in
\* it raised (timeout, refusal, certificate error, name-resolution error).
ProbeAnswered == [kind |-> "ok", chain |-> 0]

ProbeRaised == [kind |-> "exc", chain |-> 0]

ProbeAnswer(ok) == IF ok THEN ProbeAnswered ELSE ProbeRaised

\* The answers to method mth: only eth_chainId's result is a chain id.
ResponsesTo(mth) == {r \in Responses : mth # 2 => r.chain \in {0, ExpectedChainId}}

VARIABLES
    prog,               \* which script runs: "async", "sync", "find"
    pc,                 \* the statement the script is at
    i,                  \* index of the endpoint (or address) a loop is at
    m,                  \* index in Methods of the next RPC call
    exc,                \* the exception in flight, "none" if none
    exitStatus,         \* the process' exit status, -1 while it runs
    faults,             \* the deviations the environment has injected so far
    sent,               \* the JSON-RPC requests sent so far
    lastResp,           \* the environment's answer to the most recent probe or request
    results,            \* NetworkDiagnostic.results
    dns_results,        \* local dict of test_dns_resolution
    dns_writes,         \* how many times each entry of dns_results has been assigned to
    ssl_results,        \* local dict of test_ssl_connectivity
    rpc_results,        \* local dict of test_rpc_endpoints
    session,            \* NetworkDiagnostic.session: "none", "open", "closed"
    fileWritten,        \* network_diagnostic_results.json has been written
    has_internet,       \* simple_network_test.main: result of test_basic_connectivity
    has_dns,            \* simple_network_test.main: result of test_dns_resolution
    has_ssl,            \* simple_network_test.main: result of test_ssl_connectivity
    success_count,      \* local counter of the two probe loops of simple_network_test
    endpoint_working,   \* local flag of simple_network_test.test_rpc_endpoints
    console,            \* the per-probe lines simple_network_test has printed
    all_addresses,      \* find_accounts.main: the addresses to check
    inputs,             \* find_accounts: lines the user has typed so far
    issues,             \* the analysis' issues list
    recommendations,    \* the analysis' recommendations list
    working_endpoints,  \* the working endpoint list
    analysed,           \* whether the analysis step has run
    printed             \* the other lines printed so far, as <<line, endpoint>>

ctl == <<prog, pc, i, m, exc, exitStatus>>

env == <<faults, sent, lastResp>>

asyncVars == <<results, dns_results, dns_writes, ssl_results, rpc_results, session, fileWritten>>

syncVars == <<has_internet, has_dns, has_ssl, success_count, endpoint_working, console>>

findVars == <<all_addresses, inputs>>

report == <<issues, recommendations, working_endpoints, analysed, printed>>

vars == <<ctl, env, asyncVars, syncVars, findVars, report>>

---------------------------------------------------------------------------
(* Result records *)

\* A probe that has not run: the key is not in the dict.
NoProbe == [status |-> "NONE", error |-> FALSE, alt_ips |-> FALSE]

ProbeOK == [status |-> "OK", error |-> FALSE, alt_ips |-> FALSE]

\* {'status': 'FAILED', 'error': str(e)}
ProbeFailed == [status |-> "FAILED", error |-> TRUE, alt_ips |-> FALSE]

\* An RPC method that has not been called: the key is not in the dict.
NoMethod == [status |-> "NONE", error |-> FALSE, chain_id |-> -1, response_time |-> -1]

\* {'status': 'FAILED', 'error': str(e)}
MethodFailed == [status |-> "FAILED", error |-> TRUE, chain_id |-> -1, response_time |-> -1]

MethodOK(rt, chain) == [status |-> "OK", error |-> FALSE, chain_id |-> chain, response_time |-> rt]

\* The line "Chain ID mismatch ... (expected 943)" of simple_network_test.
MethodMismatch(rt, chain) == [status |-> "WARN", error |-> FALSE, chain_id |-> chain, response_time |-> rt]

NoTests == [mth \in 1..NumMethods |-> NoMethod]

NoWrites == [e \in Endpoints |-> 0]

EmptyProbes == [e \in Endpoints |-> NoProbe]

EmptyRpc == [e \in Endpoints |-> NoTests]

\* Nothing printed yet by the probes of simple_network_test.
EmptyConsole == [internet |-> NoProbe, dns |-> EmptyProbes, ssl |-> EmptyProbes,
                 rpc_endpoints |-> EmptyRpc]

NoSystemConfig ==
    [present |-> FALSE, proxy |-> FALSE, default_route |-> FALSE,
     dns_servers |-> FALSE, firewall |-> FALSE]

\* self.results = {}
EmptyResults == [internet |-> NoProbe, dns |-> EmptyProbes, ssl |-> EmptyProbes,
                 rpc_endpoints |-> EmptyRpc, system_config |-> NoSystemConfig]

\* The response time time.time() measures for a call to endpoint e: in the
\* runs of the model an endpoint answers faster the later it is in the list.
ResponseTime(e) == NumEndpoints + 1 - e

(***************************************************************************)
(* An account address, by the three facts the code can ask of the string:   *)
(* whether it starts with "0x", its length, and whether what follows the    *)
(* first two characters is made of hex digits only.                         *)
(***************************************************************************)
Address(prefix0x, length, hex) == [prefix0x |-> prefix0x, length |-> length, hex |-> hex]

\* The length of "0x" followed by 40 digits.
AddressLength == 42

\* ACCOUNT_ADDRESS, and the literals of check_common_test_addresses.
ACCOUNT_ADDRESS == Address(TRUE, AddressLength, TRUE)

\* A request that carries no address.
NoAddress == Address(FALSE, 0, FALSE)

\* A variant of the request below whose id numbers the calls of a run.
RequestNumbered(e, mth, addr) ==
    [endpoint |-> e, method |-> Methods[mth], id |-> (e - 1) * NumMethods + mth,
     address |-> IF mth = 3 THEN addr ELSE NoAddress]

\* The JSON-RPC request of one call; eth_getBalance carries [address, "latest"].
Request(e, mth, addr) ==
    [endpoint |-> e, method |-> Methods[mth], id |-> RequestId,
     address |-> IF mth = 3 THEN addr ELSE NoAddress]

---------------------------------------------------------------------------
(* network_debug.py: the four request handlers of test_rpc_endpoints *)

\* web3_clientVersion: status 200 is all that is asked; the result is
\* data.get('result', 'Unknown').
AsyncClientVersion(e, resp) ==
    IF resp.kind \in {"exc", "http_err"} THEN MethodFailed
    ELSE MethodOK(ResponseTime(e), -1)

\* eth_chainId: int(data.get('result', '0x0'), 16); a value that int() rejects
\* raises inside the try and is recorded as FAILED.
AsyncChainId(e, resp) ==
    CASE resp.kind \in {"exc", "http_err", "empty", "bad_hex"} -> MethodFailed
      [] resp.kind = "no_result" -> MethodOK(ResponseTime(e), 0)
      [] OTHER -> MethodOK(ResponseTime(e), resp.chain)

\* eth_getBalance: 'result' must be in the data, else "No result in response".
AsyncGetBalance(e, resp) ==
    IF resp.kind = "ok" THEN MethodOK(ResponseTime(e), -1) ELSE MethodFailed

\* eth_blockNumber: int(data.get('result', '0x0'), 16).
AsyncBlockNumber(e, resp) ==
    CASE resp.kind \in {"exc", "http_err", "empty", "bad_hex"} -> MethodFailed
      [] OTHER -> MethodOK(ResponseTime(e), -1)

AsyncMethodResult(e, mth, resp) ==
    CASE mth = 1 -> AsyncClientVersion(e, resp)
      [] mth = 2 -> AsyncChainId(e, resp)
      [] mth = 3 -> AsyncGetBalance(e, resp)
      [] OTHER -> AsyncBlockNumber(e, resp)


---------------------------------------------------------------------------
(* Lists in endpoint order *)

RECURSIVE FilterUpTo(_, _)
FilterUpTo(S, n) ==
    IF n = 0 THEN <<>>
    ELSE LET r == FilterUpTo(S, n - 1) IN IF n \in S THEN Append(r, n) ELSE r

\* A variant of the order below: the members of S by ascending response time.
ByResponseTime(S) ==
    LET s == FilterUpTo(S, NumEndpoints)
    IN [k \in 1..Len(s) |-> s[Len(s) + 1 - k]]

\* The members of S, a set of endpoints, in the order of PULSECHAIN_TESTNET_RPCS
\* (a dict keeps insertion order, and every loop inserts in list order).
InOrder(S) == FilterUpTo(S, NumEndpoints)

Range(s) == {s[k] : k \in 1..Len(s)}

---------------------------------------------------------------------------
(* network_debug.py: analyze_results, as functions of self.results *)

Issue(kind, hosts, count) == [kind |-> kind, hosts |-> hosts, count |-> count]

\* A variant of the list below with the comparison reversed.
ResolvedDns(r) == InOrder({e \in Endpoints : r.dns[e].status = "OK"})

\* failed_dns = [host for host, result in dns_results.items() if result.get('status') != 'OK']
FailedDns(r) == InOrder({e \in Endpoints : r.dns[e].status \notin {"NONE", "OK"}})

\* A variant of the list below that leaves out the endpoints whose DNS
\* resolution failed.
FailedSslResolved(r) ==
    InOrder({e \in Endpoints : r.ssl[e].status \notin {"NONE", "OK"} /\ r.dns[e].status = "OK"})

\* failed_ssl = [url for url, result in ssl_results.items() if result.get('status') != 'OK']
FailedSsl(r) == InOrder({e \in Endpoints : r.ssl[e].status \notin {"NONE", "OK"}})

\* A variant of the test below with any() in the place of all().
AnyTestOK(tests) ==
    \E mth \in 1..NumMethods : tests[mth].status = "OK"

\* all(test.get('status') == 'OK' for test in tests.values())
AllTestsOK(tests) ==
    \A mth \in 1..NumMethods : tests[mth].status \in {"NONE", "OK"}

\* The urls that are keys of rpc_results: an endpoint's dict is stored with
\* its four entries at once.
RpcKeys(r) == {e \in Endpoints : \E mth \in 1..NumMethods : r.rpc_endpoints[e][mth].status # "NONE"}

AsyncWorking(r) == InOrder({e \in RpcKeys(r) : AllTestsOK(r.rpc_endpoints[e])})

\* A variant of the issues below without the internet and the proxy check.
AsyncIssuesOfEndpoints(r) ==
    (IF FailedDns(r) # <<>> THEN <<Issue("dns", FailedDns(r), 0)>> ELSE <<>>)
    \o (IF FailedSsl(r) # <<>> THEN <<Issue("ssl", <<>>, Len(FailedSsl(r)))>> ELSE <<>>)
    \o (IF AsyncWorking(r) = <<>> THEN <<Issue("no_rpc", <<>>, 0)>> ELSE <<>>)

\* A variant of the issues below with one DNS issue for each failed host.
AsyncIssuesPerHost(r) ==
    (IF r.internet.status # "OK" THEN <<Issue("internet", <<>>, 0)>> ELSE <<>>)
    \o [k \in 1..Len(FailedDns(r)) |-> Issue("dns", <<FailedDns(r)[k]>>, 0)]
    \o (IF FailedSsl(r) # <<>> THEN <<Issue("ssl", <<>>, Len(FailedSsl(r)))>> ELSE <<>>)
    \o (IF AsyncWorking(r) = <<>> THEN <<Issue("no_rpc", <<>>, 0)>> ELSE <<>>)
    \o (IF r.system_config.proxy THEN <<Issue("proxy", <<>>, 0)>> ELSE <<>>)

\* A variant of the issues below without the check of the working endpoints.
AsyncIssuesOfProbes(r) ==
    (IF r.internet.status # "OK" THEN <<Issue("internet", <<>>, 0)>> ELSE <<>>)
    \o (IF FailedDns(r) # <<>> THEN <<Issue("dns", FailedDns(r), 0)>> ELSE <<>>)
    \o (IF FailedSsl(r) # <<>> THEN <<Issue("ssl", <<>>, Len(FailedSsl(r)))>> ELSE <<>>)
    \o (IF r.system_config.proxy THEN <<Issue("proxy", <<>>, 0)>> ELSE <<>>)

AsyncIssues(r) ==
    (IF r.internet.status # "OK" THEN <<Issue("internet", <<>>, 0)>> ELSE <<>>)
    \o (IF FailedDns(r) # <<>> THEN <<Issue("dns", FailedDns(r), 0)>> ELSE <<>>)
    \o (IF FailedSsl(r) # <<>> THEN <<Issue("ssl", <<>>, Len(FailedSsl(r)))>> ELSE <<>>)
    \o (IF AsyncWorking(r) = <<>> THEN <<Issue("no_rpc", <<>>, 0)>> ELSE <<>>)
    \o (IF r.system_config.proxy THEN <<Issue("proxy", <<>>, 0)>> ELSE <<>>)

\* A variant of the recommendations below whose proxy branch appends none.
AsyncRecommendationsNoProxy(r) ==
    (IF r.internet.status # "OK" THEN <<1, 2>> ELSE <<>>)
    \o (IF FailedDns(r) # <<>> THEN <<3, 4>> ELSE <<>>)
    \o (IF FailedSsl(r) # <<>> THEN <<5, 6>> ELSE <<>>)
    \o (IF AsyncWorking(r) = <<>> THEN <<7, 8>> ELSE <<>>)

\* The recommendations, by the number each text starts with.
AsyncRecommendations(r) ==
    (IF r.internet.status # "OK" THEN <<1, 2>> ELSE <<>>)
    \o (IF FailedDns(r) # <<>> THEN <<3, 4>> ELSE <<>>)
    \o (IF FailedSsl(r) # <<>> THEN <<5, 6>> ELSE <<>>)
    \o (IF AsyncWorking(r) = <<>> THEN <<7, 8>> ELSE <<>>)
    \o (IF r.system_config.proxy THEN <<9>> ELSE <<>>)

\* A variant of the summary below that recommends the working endpoint
\* that answered fastest.
SummaryLinesFastest(iss, working) ==
    (IF iss # <<>> THEN {<<"issues_found", 0>>, <<"recommendations", 0>>}
     ELSE {<<"all_passed", 0>>})
    \cup (IF working # <<>> THEN {<<"wallet_config", ByResponseTime(Range(working))[1]>>} ELSE {})

\* What the summary prints, given the issues and the working endpoints.
SummaryLines(iss, working) ==
    (IF iss # <<>> THEN {<<"issues_found", 0>>, <<"recommendations", 0>>}
     ELSE {<<"all_passed", 0>>})
    \cup (IF working # <<>> THEN {<<"wallet_config", working[1]>>} ELSE {})

\* The additional line analyze_results prints in the else branch of
\* "if not working_endpoints".
AsyncSummaryLines(iss, working) ==
    SummaryLines(iss, working) \cup (IF working # <<>> THEN {<<"working_list", 0>>} ELSE {})

---------------------------------------------------------------------------
(* The environment's budget of deviations *)

Cost(deviates) == IF deviates THEN 1 ELSE 0

\* The environment may give an answer that deviates only while the budget lasts.
Allowed(deviates) == faults + Cost(deviates) <= MaxFaults

\* A variant of the exit status below, for a __main__ block whose except
\* clauses end in sys.exit(1).
ExitCodeOfFailure(e) == IF e = "none" THEN 0 ELSE 1

\* The exit status of the interpreter once the __main__ block is left with
\* exception e in flight ("none": the run returned): both except clauses
\* print and fall through, and nothing calls sys.exit.
ExitCode(e) == 0

---------------------------------------------------------------------------
(* Initial state: a script has been started, nothing has run. *)

Init ==
    /\ prog \in {"async", "sync", "find"}
    /\ pc = CASE prog = "async" -> "create_session"
              [] prog = "sync" -> "s_internet"
              [] OTHER -> "f_config"
    /\ i = 1
    /\ m = 1
    /\ exc = "none"
    /\ exitStatus = -1
    /\ faults = 0
    /\ sent = <<>>
    /\ lastResp = NoResponse
    /\ results = EmptyResults
    /\ dns_results = EmptyProbes
    /\ dns_writes = NoWrites
    /\ ssl_results = EmptyProbes
    /\ rpc_results = EmptyRpc
    /\ session = "none"
    /\ fileWritten = FALSE
    /\ has_internet = FALSE
    /\ has_dns = FALSE
    /\ has_ssl = FALSE
    /\ success_count = 0
    /\ endpoint_working = TRUE
    /\ console = EmptyConsole
    /\ all_addresses = <<>>
    /\ inputs = 0
    /\ issues = <<>>
    /\ recommendations = <<>>
    /\ working_endpoints = <<>>
    /\ analysed = FALSE
    /\ printed = {}

---------------------------------------------------------------------------
(* network_debug.py: run_all_tests and its steps *)

\* await self.create_session(), before the try: self.session is assigned by
\* its last statement; if a constructor before it raises, the exception
\* leaves run_all_tests with self.session still None.
CreateSession ==
    /\ prog = "async" /\ pc = "create_session"
    /\ \E ok \in BOOLEAN :
         /\ Allowed(~ok)
         /\ faults' = faults + Cost(~ok)
         /\ session' = IF ok THEN "open" ELSE session
         /\ pc' = IF ok THEN "internet" ELSE "handler"
         /\ exc' = IF ok THEN exc ELSE "Exception"
    /\ UNCHANGED <<prog, i, m, exitStatus, sent, lastResp, results, dns_results, dns_writes,
                   ssl_results, rpc_results, fileWritten, syncVars, findVars, report>>

\* test_basic_connectivity: GET https://httpbin.org/ip; anything but a 200
\* with a JSON body lands in the except branch.
AsyncInternet ==
    /\ prog = "async" /\ pc = "internet"
    /\ \E ok \in BOOLEAN :
         /\ results' = [results EXCEPT !.internet = IF ok THEN ProbeOK ELSE ProbeFailed]
         /\ lastResp' = ProbeAnswer(ok)
    /\ pc' = "dns"
    /\ i' = 1
    /\ UNCHANGED <<prog, m, exc, exitStatus, faults, sent, dns_results, dns_writes, ssl_results,
                   rpc_results, session, fileWritten, syncVars, findVars, report>>

\* The entry one iteration of test_dns_resolution's loop leaves.  The outcomes:
\*   fail      socket.gethostbyname raised
\*   ctor_fail gethostbyname answered, dns.resolver.Resolver() raised: the
\*             outer except replaces the OK entry by a FAILED one
\*   ok        gethostbyname answered, the alternative resolver raised
\*   ok_alt    both answered: the entry gets 'alt_ips'
\* The assignments one iteration makes to its entry: the OK entry (96-99),
\* then 'alt_ips' (108) or the FAILED entry (113-116) in its place.
DnsWrites(outcome) == IF outcome \in {"ok_alt", "ctor_fail"} THEN 2 ELSE 1

DnsEntry(outcome) ==
    CASE outcome = "ok" -> ProbeOK
      [] outcome = "ok_alt" -> [ProbeOK EXCEPT !.alt_ips = TRUE]
      [] OTHER -> ProbeFailed

AsyncDns ==
    /\ prog = "async" /\ pc = "dns" /\ i <= NumEndpoints
    /\ \E outcome \in {"fail", "ctor_fail", "ok", "ok_alt"} :
         /\ Allowed(outcome # "ok_alt")
         /\ faults' = faults + Cost(outcome # "ok_alt")
         /\ dns_results' = [dns_results EXCEPT ![i] = DnsEntry(outcome)]
         /\ dns_writes' = [dns_writes EXCEPT ![i] = @ + DnsWrites(outcome)]
         /\ lastResp' = ProbeAnswer(outcome \in {"ok", "ok_alt"})
    /\ i' = i + 1
    /\ UNCHANGED <<prog, pc, m, exc, exitStatus, sent, results,
                   ssl_results, rpc_results, session, fileWritten, syncVars,
                   findVars, report>>

\* A variant of the step below for a loop that stops one host short.
AsyncDnsDoneEarly ==
    /\ prog = "async" /\ pc = "dns" /\ i >= NumEndpoints
    /\ results' = [results EXCEPT !.dns = dns_results]
    /\ dns_results' = EmptyProbes
    /\ dns_writes' = NoWrites
    /\ lastResp' = NoResponse
    /\ pc' = "ssl"
    /\ i' = 1
    /\ UNCHANGED <<prog, m, exc, exitStatus, faults, sent, ssl_results, rpc_results,
                   session, fileWritten, syncVars, findVars, report>>

\* self.results['dns'] = dns_results
AsyncDnsDone ==
    /\ prog = "async" /\ pc = "dns" /\ i > NumEndpoints
    /\ results' = [results EXCEPT !.dns = dns_results]
    /\ dns_results' = EmptyProbes
    /\ dns_writes' = NoWrites
    /\ lastResp' = NoResponse
    /\ pc' = "ssl"
    /\ i' = 1
    /\ UNCHANGED <<prog, m, exc, exitStatus, faults, sent, ssl_results, rpc_results,
                   session, fileWritten, syncVars, findVars, report>>

\* A variant of the iteration below without the except clause: what the
\* probe raises leaves test_ssl_connectivity and the try of run_all_tests.
AsyncSslPropagating ==
    /\ prog = "async" /\ pc = "ssl" /\ i <= NumEndpoints
    /\ \E ok \in BOOLEAN :
         /\ Allowed(~ok)
         /\ faults' = faults + Cost(~ok)
         /\ lastResp' = ProbeAnswer(ok)
         /\ IF ok
            THEN /\ ssl_results' = [ssl_results EXCEPT ![i] = ProbeOK]
                 /\ i' = i + 1
                 /\ UNCHANGED <<pc, exc>>
            ELSE /\ exc' = "Exception"
                 /\ pc' = "finally"
                 /\ UNCHANGED <<ssl_results, i>>
    /\ UNCHANGED <<prog, m, exitStatus, sent, results,
                   dns_results, dns_writes, rpc_results, session, fileWritten, syncVars,
                   findVars, report>>

\* One iteration of test_ssl_connectivity's loop: connect, handshake, read
\* the certificate; any exception gives the FAILED entry.
AsyncSsl ==
    /\ prog = "async" /\ pc = "ssl" /\ i <= NumEndpoints
    /\ \E ok \in BOOLEAN :
         /\ Allowed(~ok)
         /\ faults' = faults + Cost(~ok)
         /\ ssl_results' = [ssl_results EXCEPT ![i] = IF ok THEN ProbeOK ELSE ProbeFailed]
         /\ lastResp' = ProbeAnswer(ok)
    /\ i' = i + 1
    /\ UNCHANGED <<prog, pc, m, exc, exitStatus, sent, results,
                   dns_results, dns_writes, rpc_results, session, fileWritten, syncVars,
                   findVars, report>>

\* self.results['ssl'] = ssl_results
AsyncSslDone ==
    /\ prog = "async" /\ pc = "ssl" /\ i > NumEndpoints
    /\ results' = [results EXCEPT !.ssl = ssl_results]
    /\ ssl_results' = EmptyProbes
    /\ lastResp' = NoResponse
    /\ pc' = "rpc"
    /\ i' = 1
    /\ m' = 1
    /\ UNCHANGED <<prog, exc, exitStatus, faults, sent, dns_results, dns_writes, rpc_results,
                   session, fileWritten, syncVars, findVars, report>>

\* The warning test_rpc_endpoints prints for an eth_chainId entry.
AsyncWarning(e, mth, entry) ==
    IF mth = 2 /\ entry.status = "OK" /\ entry.chain_id # ExpectedChainId
    THEN {<<"chain_mismatch", e>>} ELSE {}

\* One call of test_rpc_endpoints: the POST of method m to endpoint i and the
\* entry it leaves in endpoint_results.
AsyncRpc ==
    /\ prog = "async" /\ pc = "rpc" /\ i <= NumEndpoints
    /\ \E resp \in ResponsesTo(m) :
         /\ Allowed(resp # Nominal)
         /\ faults' = faults + Cost(resp # Nominal)
         /\ rpc_results' = [rpc_results EXCEPT ![i][m] = AsyncMethodResult(i, m, resp)]
         /\ printed' = printed \cup AsyncWarning(i, m, AsyncMethodResult(i, m, resp))
         /\ lastResp' = resp
    /\ sent' = Append(sent, Request(i, m, ACCOUNT_ADDRESS))
    /\ IF m < NumMethods
       THEN m' = m + 1 /\ i' = i
       ELSE m' = 1 /\ i' = i + 1
    /\ UNCHANGED <<prog, pc, exc, exitStatus, results, dns_results, dns_writes, ssl_results,
                   session, fileWritten, syncVars, findVars, issues,
                   recommendations, working_endpoints, analysed>>

\* A variant of the step below for a loop that stops one endpoint short.
AsyncRpcDoneEarly ==
    /\ prog = "async" /\ pc = "rpc" /\ i >= NumEndpoints /\ m = 1
    /\ results' = [results EXCEPT !.rpc_endpoints = rpc_results]
    /\ rpc_results' = EmptyRpc
    /\ lastResp' = NoResponse
    /\ pc' = "sysconfig"
    /\ i' = 1
    /\ UNCHANGED <<prog, m, exc, exitStatus, faults, sent, dns_results, dns_writes,
                   ssl_results, session, fileWritten, syncVars, findVars, report>>

\* self.results['rpc_endpoints'] = rpc_results
AsyncRpcDone ==
    /\ prog = "async" /\ pc = "rpc" /\ i > NumEndpoints
    /\ results' = [results EXCEPT !.rpc_endpoints = rpc_results]
    /\ rpc_results' = EmptyRpc
    /\ lastResp' = NoResponse
    /\ pc' = "sysconfig"
    /\ i' = 1
    /\ UNCHANGED <<prog, m, exc, exitStatus, faults, sent, dns_results, dns_writes,
                   ssl_results, session, fileWritten, syncVars, findVars, report>>

\* The reads of check_system_configuration that sit in a try with a bare
\* except: the 'ip route' command, /etc/resolv.conf, the 'ufw status' command.
GuardedReads == {"default_route", "dns_servers", "firewall"}

\* system_config after the reads: a key is there when its read succeeded;
\* 'proxy' is there when one of the four variables is non-empty.
SystemConfig(failed, proxy) ==
    [present |-> TRUE, proxy |-> proxy,
     default_route |-> "default_route" \notin failed,
     dns_servers |-> "dns_servers" \notin failed,
     firewall |-> "firewall" \notin failed]

\* A variant of the step below without the except clauses: a read that
\* fails leaves check_system_configuration and the try of run_all_tests.
AsyncSysConfigRaising ==
    /\ prog = "async" /\ pc = "sysconfig"
    /\ \E failed \in SUBSET GuardedReads, proxy \in BOOLEAN :
         /\ faults + Cardinality(failed) <= MaxFaults
         /\ faults' = faults + Cardinality(failed)
         /\ IF failed = {}
            THEN /\ results' = [results EXCEPT !.system_config = SystemConfig(failed, proxy)]
                 /\ pc' = "analyze"
                 /\ exc' = exc
            ELSE /\ results' = results
                 /\ pc' = "finally"
                 /\ exc' = "Exception"
    /\ UNCHANGED <<prog, i, m, exitStatus, sent, lastResp, dns_results, dns_writes,
                   ssl_results, rpc_results, session, fileWritten, syncVars, findVars,
                   report>>

\* check_system_configuration: every read that can fail is in a try whose
\* except clause passes; the analysis uses the proxy variables only.
AsyncSysConfig ==
    /\ prog = "async" /\ pc = "sysconfig"
    /\ \E failed \in SUBSET GuardedReads, proxy \in BOOLEAN :
         /\ faults + Cardinality(failed) <= MaxFaults
         /\ faults' = faults + Cardinality(failed)
         /\ results' = [results EXCEPT !.system_config = SystemConfig(failed, proxy)]
    /\ pc' = "analyze"
    /\ UNCHANGED <<prog, i, m, exc, exitStatus, sent, lastResp, dns_results, dns_writes,
                   ssl_results, rpc_results, session, fileWritten, syncVars, findVars,
                   report>>

\* A variant of the step below that takes the RPC results out of
\* self.results as it reads them.
AsyncAnalyzeConsuming ==
    /\ prog = "async" /\ pc = "analyze"
    /\ issues' = AsyncIssues(results)
    /\ recommendations' = AsyncRecommendations(results)
    /\ working_endpoints' = AsyncWorking(results)
    /\ printed' = printed \cup AsyncSummaryLines(AsyncIssues(results), AsyncWorking(results))
    /\ analysed' = TRUE
    /\ pc' = "finally"
    /\ results' = [results EXCEPT !.rpc_endpoints = EmptyRpc]
    /\ UNCHANGED <<prog, i, m, exc, exitStatus, env, dns_results, dns_writes, ssl_results,
                   rpc_results, session, fileWritten, syncVars, findVars>>

\* analyze_results
AsyncAnalyze ==
    /\ prog = "async" /\ pc = "analyze"
    /\ issues' = AsyncIssues(results)
    /\ recommendations' = AsyncRecommendations(results)
    /\ working_endpoints' = AsyncWorking(results)
    /\ printed' = printed \cup AsyncSummaryLines(AsyncIssues(results), AsyncWorking(results))
    /\ analysed' = TRUE
    /\ pc' = "finally"
    /\ UNCHANGED <<prog, i, m, exc, exitStatus, env, asyncVars, syncVars, findVars>>

\* A variant of the step below for a save that sits in the finally clause.
AsyncFinallySaving ==
    /\ prog = "async" /\ pc = "finally"
    /\ session' = IF session = "open" THEN "closed" ELSE session
    /\ pc' = "save"
    /\ UNCHANGED <<prog, i, m, exc, exitStatus, env, results, dns_results, dns_writes,
                   ssl_results, rpc_results, fileWritten, syncVars, findVars, report>>

\* A variant of the step below for a close that is the last statement of
\* the try: it is reached only when no exception left the steps.
AsyncFinallyOnSuccess ==
    /\ prog = "async" /\ pc = "finally"
    /\ session' = IF session = "open" /\ exc = "none" THEN "closed" ELSE session
    /\ pc' = IF exc = "none" THEN "save" ELSE "handler"
    /\ UNCHANGED <<prog, i, m, exc, exitStatus, env, results, dns_results, dns_writes,
                   ssl_results, rpc_results, fileWritten, syncVars, findVars, report>>

\* finally: if self.session: await self.session.close()
AsyncFinally ==
    /\ prog = "async" /\ pc = "finally"
    /\ session' = IF session = "open" THEN "closed" ELSE session
    /\ pc' = IF exc = "none" THEN "save" ELSE "handler"
    /\ UNCHANGED <<prog, i, m, exc, exitStatus, env, results, dns_results, dns_writes,
                   ssl_results, rpc_results, fileWritten, syncVars, findVars, report>>

\* Save detailed results: open(...) of the fixed path may raise; if it does
\* not, the file is written, the last line printed, and the script ends
\* (and with it the NetworkDiagnostic object).
AsyncSave ==
    /\ prog = "async" /\ pc = "save"
    /\ \E ok \in BOOLEAN :
         IF ok
         THEN /\ fileWritten' = TRUE
              /\ printed' = printed \cup {<<"saved", 0>>}
              /\ pc' = "done"
              /\ exitStatus' = ExitCode("none")
              /\ exc' = exc
              /\ results' = EmptyResults
         ELSE /\ exc' = "Exception"
              /\ pc' = "handler"
              /\ results' = EmptyResults
              /\ UNCHANGED <<fileWritten, printed, exitStatus>>
    /\ UNCHANGED <<prog, i, m, env, dns_results, dns_writes, ssl_results,
                   rpc_results, session, syncVars, findVars, issues,
                   recommendations, working_endpoints, analysed>>

\* A KeyboardInterrupt inside the try of run_all_tests: no "except Exception"
\* of the steps catches it, the finally runs, the locals are gone.  Nothing
\* reads self.results once an exception leaves the try, so the model drops it.
AsyncCancel ==
    /\ prog = "async"
    /\ pc \in {"internet", "dns", "ssl", "rpc", "sysconfig", "analyze"}
    /\ exc' = "KeyboardInterrupt"
    /\ pc' = "finally"
    /\ dns_results' = EmptyProbes
    /\ dns_writes' = NoWrites
    /\ ssl_results' = EmptyProbes
    /\ rpc_results' = EmptyRpc
    /\ lastResp' = NoResponse
    /\ results' = EmptyResults
    /\ i' = 1
    /\ m' = 1
    /\ UNCHANGED <<prog, exitStatus, faults, sent, session, fileWritten,
                   syncVars, findVars, report>>

---------------------------------------------------------------------------
(* simple_network_test.py: make_rpc_call and the handlers of test_rpc_endpoints *)

\* make_rpc_call returns status 'OK' for every parsed 200 response and
\* 'FAILED' for an exception (urlopen raises for an error status too).
SyncCallOK(resp) == resp.kind \notin {"exc", "http_err"}

\* int(x, 16) of a result that is no hex number raises ValueError, outside
\* any try of test_rpc_endpoints.
SyncRaises(mth, resp) == mth \in {2, 3, 4} /\ resp.kind = "bad_hex"

\* web3_clientVersion: result['result'].get('result', 'Unknown')
SyncClientVersion(e, resp) ==
    IF SyncCallOK(resp) THEN MethodOK(ResponseTime(e), -1) ELSE MethodFailed

\* eth_chainId: chain_id_hex = result['result'].get('result', '0x0');
\* chain_id = int(chain_id_hex, 16) if chain_id_hex else 0
SyncChainId(e, resp) ==
    CASE ~SyncCallOK(resp) -> MethodFailed
      [] resp.kind \in {"no_result", "empty"} -> MethodMismatch(ResponseTime(e), 0)
      [] resp.chain = ExpectedChainId -> MethodOK(ResponseTime(e), resp.chain)
      [] OTHER -> MethodMismatch(ResponseTime(e), resp.chain)

\* eth_getBalance and eth_blockNumber: x = result['result'].get('result', '0x0');
\* "if x:" decides between the OK line and "No result in response".
SyncHexResult(e, resp) ==
    CASE ~SyncCallOK(resp) -> MethodFailed
      [] resp.kind = "empty" -> MethodFailed
      [] OTHER -> MethodOK(ResponseTime(e), -1)

\* The line test_rpc_endpoints prints for method mth of endpoint e.
SyncMethodLine(e, mth, resp) ==
    CASE mth = 1 -> SyncClientVersion(e, resp)
      [] mth = 2 -> SyncChainId(e, resp)
      [] OTHER -> SyncHexResult(e, resp)

\* Every branch but the OK line sets endpoint_working = False.
SyncStillWorking(flag, line) == flag /\ line.status = "OK"

---------------------------------------------------------------------------
(* simple_network_test.py: analyze_and_recommend *)

SyncIssues(working, internet, dns, ssl) ==
    (IF ~internet THEN <<Issue("internet", <<>>, 0)>> ELSE <<>>)
    \o (IF ~dns THEN <<Issue("dns", <<>>, 0)>> ELSE <<>>)
    \o (IF ~ssl THEN <<Issue("ssl", <<>>, 0)>> ELSE <<>>)
    \o (IF working = <<>> THEN <<Issue("no_rpc", <<>>, 0)>> ELSE <<>>)

SyncRecommendations(working, internet, dns, ssl) ==
    (IF ~internet THEN <<1, 2>> ELSE <<>>)
    \o (IF ~dns THEN <<3, 4>> ELSE <<>>)
    \o (IF ~ssl THEN <<5, 6>> ELSE <<>>)
    \o (IF working = <<>> THEN <<7, 8, 9>> ELSE <<>>)

---------------------------------------------------------------------------
(* simple_network_test.py: main and its steps *)

\* has_internet = test_basic_connectivity()
SyncInternet ==
    /\ prog = "sync" /\ pc = "s_internet"
    /\ \E ok \in BOOLEAN :
         /\ has_internet' = ok
         /\ console' = [console EXCEPT !.internet = IF ok THEN ProbeOK ELSE ProbeFailed]
         /\ lastResp' = ProbeAnswer(ok)
    /\ pc' = "s_dns"
    /\ i' = 1
    /\ success_count' = 0
    /\ UNCHANGED <<prog, m, exc, exitStatus, faults, sent, asyncVars, has_dns, has_ssl,
                   endpoint_working, findVars, report>>

\* One iteration of test_dns_resolution's loop.
SyncDns ==
    /\ prog = "sync" /\ pc = "s_dns" /\ i <= NumEndpoints
    /\ \E ok \in BOOLEAN :
         /\ Allowed(~ok)
         /\ faults' = faults + Cost(~ok)
         /\ console' = [console EXCEPT !.dns[i] = IF ok THEN ProbeOK ELSE ProbeFailed]
         /\ success_count' = success_count + Cost(ok)
         /\ lastResp' = ProbeAnswer(ok)
    /\ i' = i + 1
    /\ UNCHANGED <<prog, pc, m, exc, exitStatus, sent, asyncVars,
                   has_internet, has_dns, has_ssl, endpoint_working, findVars, report>>

\* A variant of the step below that asks every lookup to succeed.
SyncDnsDoneStrict ==
    /\ prog = "sync" /\ pc = "s_dns" /\ i > NumEndpoints
    /\ has_dns' = (success_count = NumEndpoints)
    /\ success_count' = 0
    /\ lastResp' = NoResponse
    /\ pc' = "s_ssl"
    /\ i' = 1
    /\ UNCHANGED <<prog, m, exc, exitStatus, faults, sent, asyncVars, has_internet,
                   has_ssl, endpoint_working, console, findVars, report>>

\* return success_count > 0
SyncDnsDone ==
    /\ prog = "sync" /\ pc = "s_dns" /\ i > NumEndpoints
    /\ has_dns' = (success_count > 0)
    /\ success_count' = 0
    /\ lastResp' = NoResponse
    /\ pc' = "s_ssl"
    /\ i' = 1
    /\ UNCHANGED <<prog, m, exc, exitStatus, faults, sent, asyncVars, has_internet,
                   has_ssl, endpoint_working, console, findVars, report>>

\* One iteration of test_ssl_connectivity's loop.
SyncSsl ==
    /\ prog = "sync" /\ pc = "s_ssl" /\ i <= NumEndpoints
    /\ \E ok \in BOOLEAN :
         /\ Allowed(~ok)
         /\ faults' = faults + Cost(~ok)
         /\ console' = [console EXCEPT !.ssl[i] = IF ok THEN ProbeOK ELSE ProbeFailed]
         /\ success_count' = success_count + Cost(ok)
         /\ lastResp' = ProbeAnswer(ok)
    /\ i' = i + 1
    /\ UNCHANGED <<prog, pc, m, exc, exitStatus, sent, asyncVars,
                   has_internet, has_dns, has_ssl, endpoint_working, findVars, report>>

\* return success_count > 0
SyncSslDone ==
    /\ prog = "sync" /\ pc = "s_ssl" /\ i > NumEndpoints
    /\ has_ssl' = (success_count > 0)
    /\ success_count' = 0
    /\ pc' = "s_rpc"
    /\ i' = 1
    /\ m' = 1
    /\ endpoint_working' = TRUE
    /\ lastResp' = NoResponse
    /\ UNCHANGED <<prog, exc, exitStatus, faults, sent, asyncVars, has_internet,
                   has_dns, console, findVars, report>>

\* One call of test_rpc_endpoints: make_rpc_call of method m to endpoint i
\* and the branch taken on its result.  After the fourth method the endpoint
\* is appended to working_endpoints if the flag is still set.
SyncRpc ==
    /\ prog = "sync" /\ pc = "s_rpc" /\ i <= NumEndpoints
    /\ \E resp \in ResponsesTo(m) :
         /\ Allowed(resp # Nominal)
         /\ faults' = faults + Cost(resp # Nominal)
         /\ lastResp' = resp
         /\ IF SyncRaises(m, resp)
            THEN /\ exc' = "Exception"
                 /\ pc' = "handler"
                 /\ console' = EmptyConsole
                 /\ UNCHANGED <<i, m, endpoint_working, working_endpoints, printed>>
            ELSE LET line == SyncMethodLine(i, m, resp)
                     flag == SyncStillWorking(endpoint_working, line)
                 IN /\ console' = [console EXCEPT !.rpc_endpoints[i][m] = line]
                    /\ printed' = printed \cup
                          (IF line.status = "WARN" THEN {<<"chain_mismatch", i>>} ELSE {})
                    /\ exc' = exc
                    /\ IF m < NumMethods
                       THEN /\ m' = m + 1
                            /\ i' = i
                            /\ pc' = pc
                            /\ endpoint_working' = flag
                            /\ working_endpoints' = working_endpoints
                       ELSE /\ m' = 1
                            /\ i' = i + 1
                            /\ pc' = IF i < NumEndpoints THEN pc ELSE "s_sysconfig"
                            /\ endpoint_working' = TRUE
                            /\ working_endpoints' =
                                 IF flag THEN Append(working_endpoints, i)
                                 ELSE working_endpoints
    /\ sent' = Append(sent, Request(i, m, ACCOUNT_ADDRESS))
    /\ UNCHANGED <<prog, exitStatus, asyncVars, has_internet, has_dns, has_ssl,
                   success_count, findVars, issues, recommendations, analysed>>

\* check_system_configuration and check_wallet_process: they print what
\* they read and leave nothing the later steps use.
UnableLines(failed) == {<<"unable_" \o read, 0>> : read \in failed}

\* Each read is in a try; its except clause prints an 'Unable to check' line.
SyncSysConfig ==
    /\ prog = "sync" /\ pc = "s_sysconfig"
    /\ \E failed \in SUBSET GuardedReads :
         /\ faults + Cardinality(failed) <= MaxFaults
         /\ faults' = faults + Cardinality(failed)
         /\ printed' = printed \cup UnableLines(failed)
    /\ pc' = "s_analyze"
    /\ lastResp' = NoResponse
    /\ UNCHANGED <<prog, i, m, exc, exitStatus, sent, asyncVars, syncVars, findVars,
                   issues, recommendations, working_endpoints, analysed>>

\* analyze_and_recommend(working_endpoints, has_internet, has_dns, has_ssl)
SyncAnalyze ==
    /\ prog = "sync" /\ pc = "s_analyze"
    /\ issues' = SyncIssues(working_endpoints, has_internet, has_dns, has_ssl)
    /\ recommendations' = SyncRecommendations(working_endpoints, has_internet, has_dns, has_ssl)
    /\ printed' = printed \cup
          SummaryLines(SyncIssues(working_endpoints, has_internet, has_dns, has_ssl),
                       working_endpoints)
    /\ analysed' = TRUE
    /\ pc' = "s_curl"
    /\ UNCHANGED <<prog, i, m, exc, exitStatus, env, asyncVars, syncVars,
                   findVars, working_endpoints>>

\* The curl hint is printed, main returns, the script ends.
SyncCurl ==
    /\ prog = "sync" /\ pc = "s_curl"
    /\ printed' = printed \cup {<<"curl_hint", 0>>}
    /\ exitStatus' = ExitCode("none")
    /\ pc' = "done"
    /\ console' = EmptyConsole
    /\ UNCHANGED <<prog, i, m, exc, env, asyncVars, has_internet, has_dns,
                   has_ssl, success_count, endpoint_working, findVars, issues,
                   recommendations, working_endpoints, analysed>>

\* A KeyboardInterrupt anywhere in main.  (The model keeps the per-probe
\* lines only for the runs that no exception ends.)
SyncCancel ==
    /\ prog = "sync"
    /\ pc \in {"s_internet", "s_dns", "s_ssl", "s_rpc", "s_sysconfig", "s_analyze", "s_curl"}
    /\ exc' = "KeyboardInterrupt"
    /\ pc' = "handler"
    /\ lastResp' = NoResponse
    /\ console' = EmptyConsole
    /\ UNCHANGED <<prog, i, m, exitStatus, faults, sent, asyncVars, has_internet,
                   has_dns, has_ssl, success_count, endpoint_working, findVars, report>>

---------------------------------------------------------------------------
(* find_accounts.py *)

\* The most addresses the search of the config files finds in a run.
MaxConfigAddresses == 1

\* The most lines the user types at the prompt before the empty one.
MaxInputs == 2

\* The length of '0x123', the short address of the malformed-account scenario.
ShortLength == 5

\* What the user can type at the prompt of get_user_input_addresses
\* (after strip(); the empty line is FindInputEnd).
InputLines ==
    {Address(p, l, h) : p \in BOOLEAN, l \in {ShortLength, AddressLength, AddressLength + 1},
                        h \in BOOLEAN}

\* re.findall(r'0x[a-fA-F0-9]{40}', content): what search_for_addresses_in_file
\* returns has that shape.
ConfigAddress == Address(TRUE, AddressLength, TRUE)

\* "Basic validation" of get_user_input_addresses:
\* addr.startswith('0x') and len(addr) == 42
BasicValidation(addr) == addr.prefix0x /\ addr.length = AddressLength

\* The number of literals in test_addresses of check_common_test_addresses.
NumTestAddresses == 2

\* check_balance raises when the result is no hex number: int(balance_hex, 16)
\* is in no try.
FindRaises(resp) == resp.kind = "bad_hex"

\* Steps 1: the config files are searched; every address found is appended.
FindConfig ==
    /\ prog = "find" /\ pc = "f_config"
    /\ \E n \in 0..MaxConfigAddresses :
         all_addresses' = [k \in 1..n |-> ConfigAddress]
    /\ pc' = "f_common"
    /\ i' = 1
    /\ UNCHANGED <<prog, m, exc, exitStatus, env, asyncVars, syncVars, inputs, report>>

\* One check_balance call of the RPC_URL endpoint for address addr.
FindCheckBalance(addr, resp) ==
    /\ sent' = Append(sent, Request(0, 3, addr))
    /\ lastResp' = resp
    /\ Allowed(resp # Nominal)
    /\ faults' = faults + Cost(resp # Nominal)

\* Step 2: check_common_test_addresses, one literal per iteration.
FindCommon ==
    /\ prog = "find" /\ pc = "f_common" /\ i <= NumTestAddresses
    /\ \E resp \in ResponsesTo(3) :
         /\ FindCheckBalance(ACCOUNT_ADDRESS, resp)
         /\ IF FindRaises(resp)
            THEN exc' = "Exception" /\ pc' = "handler" /\ i' = i
            ELSE /\ exc' = exc
                 /\ i' = i + 1
                 /\ pc' = IF i < NumTestAddresses THEN pc ELSE "f_input"
    /\ UNCHANGED <<prog, m, exitStatus, asyncVars, syncVars, findVars, report>>

\* Step 3: one line typed at the prompt; it is kept if it passes the check.
FindInput ==
    /\ prog = "find" /\ pc = "f_input" /\ inputs < MaxInputs
    /\ \E addr \in InputLines :
         all_addresses' = IF BasicValidation(addr) THEN Append(all_addresses, addr)
                          ELSE all_addresses
    /\ inputs' = inputs + 1
    /\ UNCHANGED <<ctl, env, asyncVars, syncVars, report>>

\* The empty line ends the prompt loop.
FindInputEnd ==
    /\ prog = "find" /\ pc = "f_input"
    /\ pc' = "f_check"
    /\ i' = 1
    /\ UNCHANGED <<prog, m, exc, exitStatus, env, asyncVars, syncVars, findVars, report>>

\* Step 4: check_balance for every address of all_addresses.
FindCheck ==
    /\ prog = "find" /\ pc = "f_check" /\ i <= Len(all_addresses)
    /\ \E resp \in ResponsesTo(3) :
         /\ FindCheckBalance(all_addresses[i], resp)
         /\ IF FindRaises(resp)
            THEN exc' = "Exception" /\ pc' = "handler" /\ i' = i
            ELSE exc' = exc /\ pc' = pc /\ i' = i + 1
    /\ UNCHANGED <<prog, m, exitStatus, asyncVars, syncVars, findVars, report>>

\* Step 5: the summary is printed, main returns, the script ends.
FindSummary ==
    /\ prog = "find" /\ pc = "f_check" /\ i > Len(all_addresses)
    /\ printed' = printed \cup {<<"summary", 0>>}
    /\ exitStatus' = ExitCode("none")
    /\ pc' = "done"
    /\ UNCHANGED <<prog, i, m, exc, env, asyncVars, syncVars, findVars, issues,
                   recommendations, working_endpoints, analysed>>

\* A KeyboardInterrupt anywhere in main.
FindCancel ==
    /\ prog = "find"
    /\ pc \in {"f_config", "f_common", "f_input", "f_check"}
    /\ exc' = "KeyboardInterrupt"
    /\ pc' = "handler"
    /\ UNCHANGED <<prog, i, m, exitStatus, env, asyncVars, syncVars, findVars, report>>

---------------------------------------------------------------------------
(* The timeouts of the probe calls of network_debug.py and simple_network_test.py *)

\* The statements of each layer's calls.
LayerPcs(layer) ==
    CASE layer = "internet" -> {"internet", "s_internet"}
      [] layer = "dns" -> {"dns", "s_dns"}
      [] layer = "ssl" -> {"ssl", "s_ssl"}
      [] OTHER -> {"rpc", "s_rpc"}

Layers == {"internet", "dns", "ssl", "rpc"}

\* The timeout, in seconds, the call of a layer is made with; 0 if the call
\* is given none: get(..., timeout=10) and urlopen(..., timeout=10) for the
\* internet check, socket.gethostbyname(hostname) for DNS,
\* socket.create_connection(..., timeout=10) for TLS, timeout=15 for RPC.
Timeout(layer) ==
    CASE layer = "internet" -> 10
      [] layer = "dns" -> 0
      [] layer = "ssl" -> 10
      [] OTHER -> 15

\* A call made without a timeout to a host that never answers: the call does
\* not return and the script stays in it.  (With a timeout the call raises,
\* which is the failure outcome of the probe's own step.)
ProbeBlocked ==
    /\ prog \in {"async", "sync"}
    /\ \E layer \in Layers : pc \in LayerPcs(layer) /\ Timeout(layer) = 0
    /\ i <= NumEndpoints
    /\ Allowed(TRUE)
    /\ faults' = faults + 1
    /\ pc' = "blocked"
    /\ lastResp' = NoResponse
    /\ UNCHANGED <<prog, i, m, exc, exitStatus, sent, asyncVars, syncVars,
                   findVars, report>>

---------------------------------------------------------------------------
(* The __main__ block of the three scripts *)

\* A variant of the handler below that runs the analysis on what is left of
\* the results before the script ends.
HandlerWithReport ==
    /\ pc = "handler"
    /\ printed' = printed
          \cup {<<IF exc = "KeyboardInterrupt" THEN "cancelled" ELSE "failed", 0>>}
          \cup AsyncSummaryLines(AsyncIssues(results), AsyncWorking(results))
    /\ issues' = AsyncIssues(results)
    /\ recommendations' = AsyncRecommendations(results)
    /\ analysed' = TRUE
    /\ exitStatus' = ExitCode(exc)
    /\ pc' = "done"
    /\ UNCHANGED <<prog, i, m, exc, env, asyncVars, syncVars, findVars, working_endpoints>>

\* except KeyboardInterrupt / except Exception: print, fall off the end.
Handler ==
    /\ pc = "handler"
    /\ printed' = printed \cup {<<IF exc = "KeyboardInterrupt" THEN "cancelled" ELSE "failed", 0>>}
    /\ exitStatus' = ExitCode(exc)
    /\ pc' = "done"
    /\ UNCHANGED <<prog, i, m, exc, env, asyncVars, syncVars, findVars, issues,
                   recommendations, working_endpoints, analysed>>

Next ==
    \/ CreateSession
    \/ AsyncInternet
    \/ AsyncDns
    \/ AsyncDnsDone
    \/ AsyncSsl
    \/ AsyncSslDone
    \/ AsyncRpc
    \/ AsyncRpcDone
    \/ AsyncSysConfig
    \/ AsyncAnalyze
    \/ AsyncFinally
    \/ AsyncSave
    \/ AsyncCancel
    \/ SyncInternet
    \/ SyncDns
    \/ SyncDnsDone
    \/ SyncSsl
    \/ SyncSslDone
    \/ SyncRpc
    \/ SyncSysConfig
    \/ SyncAnalyze
    \/ SyncCurl
    \/ SyncCancel
    \/ FindConfig
    \/ FindCommon
    \/ FindInput
    \/ FindInputEnd
    \/ FindCheck
    \/ FindSummary
    \/ FindCancel
    \/ Handler
    \/ ProbeBlocked

Spec == Init /\ [][Next]_vars

---------------------------------------------------------------------------
(* What a run has recorded, read where the script keeps it *)

\* network_debug.py has returned from analyze_results and self.results is
\* still in memory.
AsyncReported == prog = "async" /\ analysed /\ pc \in {"finally", "save"}

\* simple_network_test.py has returned from analyze_and_recommend.
SyncReported == prog = "sync" /\ analysed /\ pc = "s_curl"

Reported == AsyncReported \/ SyncReported

\* The outcome recorded for the DNS probe of endpoint e.
DnsStatus(e) == IF prog = "sync" THEN console.dns[e].status ELSE results.dns[e].status

\* The outcome recorded for the TLS probe of endpoint e.
SslStatus(e) == IF prog = "sync" THEN console.ssl[e].status ELSE results.ssl[e].status

\* The outcome recorded for method mth of endpoint e.
MethodEntry(e, mth) ==
    IF prog = "sync" THEN console.rpc_endpoints[e][mth] ELSE results.rpc_endpoints[e][mth]

\* The call of method mth to endpoint e came back with a result.
CallSucceeded(e, mth) == MethodEntry(e, mth).status \in {"OK", "WARN"}

AllCallsOK(e) == \A mth \in 1..NumMethods : MethodEntry(e, mth).status = "OK"

Working(e) == e \in Range(working_endpoints)

\* The issues list holds a DNS issue; network_debug.py's names the hosts.
DnsIssue == \E k \in 1..Len(issues) : issues[k].kind = "dns"

DnsIssueNames(e) ==
    \E k \in 1..Len(issues) :
        issues[k].kind = "dns" /\ (prog = "async" => e \in Range(issues[k].hosts))

---------------------------------------------------------------------------
(* C1 *)

\* C1: an endpoint whose four RPC calls succeed but whose reported chain id
\* is not the expected one (943) is still counted as working, and the
\* mismatch is reported for it.
C1_MismatchedChainStillHealthy ==
    Reported =>
        \A e \in Endpoints :
            ((\A mth \in 1..NumMethods : CallSucceeded(e, mth))
                /\ MethodEntry(e, 2).chain_id # ExpectedChainId)
            => (Working(e) /\ <<"chain_mismatch", e>> \in printed)

---------------------------------------------------------------------------
(* C2 *)

\* C2 as stated: an endpoint is working exactly when its DNS probe, its TLS
\* probe and its four RPC calls succeeded and its chain id is the expected one.
C2_HealthyIffAllLayersPass ==
    Reported =>
        \A e \in Endpoints :
            Working(e) <=> (/\ DnsStatus(e) = "OK"
                            /\ SslStatus(e) = "OK"
                            /\ \A mth \in 1..NumMethods : CallSucceeded(e, mth)
                            /\ MethodEntry(e, 2).chain_id = ExpectedChainId)

\* C2: an endpoint is in the working list exactly when each of its four RPC
\* methods is recorded OK, whatever its DNS and TLS probes gave; in
\* simple_network_test.py an OK eth_chainId line means the expected chain id.
C2_WorkingIffRpcEntriesOK ==
    /\ Reported => \A e \in Endpoints : Working(e) <=> AllCallsOK(e)
    /\ SyncReported =>
         \A e \in Endpoints : Working(e) => MethodEntry(e, 2).chain_id = ExpectedChainId

\* A working endpoint whose DNS and TLS probes both failed.
C2_WorkingWithFailedProbes ==
    /\ Reported
    /\ \E e \in Endpoints :
         Working(e) /\ DnsStatus(e) = "FAILED" /\ SslStatus(e) = "FAILED"

---------------------------------------------------------------------------
(* C3 *)

\* C3 as stated: for an endpoint whose DNS resolution failed the analysis
\* names DNS as the cause, and none of its RPC methods is recorded OK.
C3_DnsFailureIsRootCause ==
    Reported =>
        \A e \in Endpoints :
            DnsStatus(e) = "FAILED" =>
                (DnsIssueNames(e) /\ \A mth \in 1..NumMethods : MethodEntry(e, mth).status # "OK")

\* C3: network_debug.py's analysis reports a DNS issue naming exactly the
\* hosts whose resolution failed; simple_network_test.py reports a DNS issue
\* exactly when resolution failed for every endpoint; in both the four RPC
\* methods of every endpoint have been called all the same.
C3_DnsFailureIsReported ==
    /\ AsyncReported => \A e \in Endpoints : DnsStatus(e) = "FAILED" <=> DnsIssueNames(e)
    /\ SyncReported => (DnsIssue <=> \A e \in Endpoints : DnsStatus(e) = "FAILED")
    /\ Reported =>
         \A e \in Endpoints : \A mth \in 1..NumMethods : MethodEntry(e, mth).status # "NONE"

\* An endpoint whose DNS resolution failed and whose four methods are all
\* recorded OK.
C3_FailedDnsYetRpcOK ==
    /\ Reported
    /\ \E e \in Endpoints :
         /\ DnsStatus(e) = "FAILED"
         /\ AllCallsOK(e)
         /\ (prog = "async" => DnsIssueNames(e))

---------------------------------------------------------------------------
(* C4 *)

\* a goes before b in the ranking of C4: working before non-working, then
\* the shorter response time, then the earlier place in the input.
RankedBefore(a, b) ==
    \/ Working(a) /\ ~Working(b)
    \/ /\ Working(a) = Working(b)
       /\ \/ ResponseTime(a) < ResponseTime(b)
          \/ ResponseTime(a) = ResponseTime(b) /\ a < b

\* C4 as stated: the endpoint list the analysis gives is a permutation of the
\* input endpoints, working ones first, then by ascending response time.
C4_RankedPermutation ==
    Reported =>
        /\ Len(working_endpoints) = NumEndpoints
        /\ Range(working_endpoints) = Endpoints
        /\ \A j \in 1..Len(working_endpoints) : \A k \in 1..Len(working_endpoints) :
               j < k => RankedBefore(working_endpoints[j], working_endpoints[k])

\* C4: the endpoint list the analysis gives holds exactly the endpoints whose
\* four methods are recorded OK, each once, in input order, whatever their
\* response times; the other endpoints are left out.
C4_WorkingInInputOrder ==
    Reported =>
        /\ Range(working_endpoints) = {e \in Endpoints : AllCallsOK(e)}
        /\ \A j \in 1..Len(working_endpoints) : \A k \in 1..Len(working_endpoints) :
               j < k => working_endpoints[j] < working_endpoints[k]

\* Two working endpoints, the slower one listed first.
C4_SlowerEndpointFirst ==
    /\ Reported
    /\ Len(working_endpoints) >= 2
    /\ ResponseTime(working_endpoints[1]) > ResponseTime(working_endpoints[2])

---------------------------------------------------------------------------
(* C5 *)

\* C5 as stated: a diagnostic run ends with exit status zero exactly when it
\* returned normally and found a working endpoint.
C5_ExitStatusTellsHealth ==
    (pc = "done" /\ prog \in {"async", "sync"}) =>
        (exitStatus = 0 <=> (exc = "none" /\ working_endpoints # <<>>))

\* C5: every run that gets to the end of its __main__ block ends with exit
\* status zero: with or without a working endpoint, and also when it went
\* through an except clause.
C5_ExitStatusAlwaysZero ==
    /\ pc = "done" => exitStatus = 0
    /\ pc # "done" => exitStatus = -1

\* A run that analysed its results, found no working endpoint, and ended.
C5_NoWorkingEndpointExitZero ==
    /\ pc = "done"
    /\ analysed
    /\ exc = "none"
    /\ working_endpoints = <<>>
    /\ Len(sent) = NumEndpoints * NumMethods

---------------------------------------------------------------------------
(* C6 *)

\* "0x" followed by 40 hex digits.
WellFormed(addr) == addr.prefix0x /\ addr.length = AddressLength /\ addr.hex

\* C6: no eth_getBalance request is ever sent with an address that is not
\* "0x" followed by 40 hex digits.
C6_MalformedAddressNeverSent ==
    \A k \in 1..Len(sent) :
        sent[k].method = "eth_getBalance" => WellFormed(sent[k].address)

---------------------------------------------------------------------------
(* C7 *)

---------------------------------------------------------------------------
(* C8 *)

\* The statements at which a DNS, TLS or HTTP-reachability probe runs.
ProbePcs == {"internet", "dns", "ssl", "s_internet", "s_dns", "s_ssl"}

\* A step in which a probe ran: the environment answered it.
ProbeRan == pc \in ProbePcs /\ lastResp'.kind # "none"

\* The entry the probe of this step has left.
ProbeWritten ==
    CASE pc = "internet" -> results'.internet
      [] pc = "dns" -> dns_results'[i]
      [] pc = "ssl" -> ssl_results'[i]
      [] pc = "s_internet" -> console'.internet
      [] pc = "s_dns" -> console'.dns[i]
      [] OTHER -> console'.ssl[i]

\* The run goes on with the next probe.
NextProbe ==
    IF pc \in {"internet", "s_internet"}
    THEN pc' \in {"dns", "s_dns"} /\ i' = 1
    ELSE pc' = pc /\ i' = i + 1

\* C8: a DNS, TLS or HTTP-reachability probe that fails leaves a FAILED entry
\* with the error text, no exception leaves the probe, and the run goes on
\* with the next probe.
C8_ProbeFailureRecorded ==
    [][ProbeRan =>
          /\ exc' = "none"
          /\ NextProbe
          /\ lastResp'.kind = "exc" => (ProbeWritten.status = "FAILED" /\ ProbeWritten.error)
          /\ lastResp'.kind = "ok" => ProbeWritten.status = "OK"]_vars

\* The three probes of the first endpoint have failed and the run is at the
\* TLS probe of the next one.
C8_FailedProbesRunGoesOn ==
    /\ prog = "async" /\ pc = "ssl" /\ i = 2
    /\ exc = "none"
    /\ lastResp.kind = "exc"
    /\ results.internet = ProbeFailed
    /\ results.dns[1] = ProbeFailed
    /\ ssl_results[1] = ProbeFailed

---------------------------------------------------------------------------
(* C9 *)

\* The requests of a whole diagnostic run: for each endpoint in input order
\* the four methods in the order of Methods.
FullBattery ==
    [k \in 1..(NumEndpoints * NumMethods) |->
        Request(((k - 1) \div NumMethods) + 1, ((k - 1) % NumMethods) + 1, ACCOUNT_ADDRESS)]

\* C9: the requests go out in the fixed order, and a diagnostic run that is
\* not cancelled sends all four methods to every endpoint, whatever the
\* earlier methods gave.
C9_BatteryRunsToTheEnd ==
    prog \in {"async", "sync"} =>
        /\ Len(sent) <= Len(FullBattery)
        /\ \A k \in 1..Len(sent) : sent[k] = FullBattery[k]
        /\ (pc = "done" /\ exc # "KeyboardInterrupt") => Len(sent) = Len(FullBattery)

---------------------------------------------------------------------------
(* C10 *)

MethodIndex(name) == CHOOSE k \in 1..NumMethods : Methods[k] = name

\* The entry left for the most recent request of the battery.
LastEntry ==
    LET req == sent[Len(sent)]
    IN IF prog = "sync" THEN console.rpc_endpoints[req.endpoint][MethodIndex(req.method)]
       ELSE rpc_results[req.endpoint][MethodIndex(req.method)]

\* C10: a 200 response without a "result" member is recorded as a failure of
\* the method it answers, for each of the four methods, and the endpoint does
\* not count as working.
C10_MissingResultIsFailure ==
    (pc \in {"rpc", "s_rpc", "s_sysconfig"} /\ lastResp.kind = "no_result") =>
        /\ LastEntry.status = "FAILED"
        /\ prog = "sync" =>
             IF MethodIndex(sent[Len(sent)].method) = NumMethods
             THEN ~Working(sent[Len(sent)].endpoint)
             ELSE ~endpoint_working

---------------------------------------------------------------------------
(* C11 *)

\* The most recent request of the battery is one whose result the code
\* parses with int(x, 16).
LastMethodParsed ==
    /\ prog \in {"async", "sync"}
    /\ Len(sent) > 0
    /\ MethodIndex(sent[Len(sent)].method) \in {2, 3, 4}

\* C11: when the result of eth_chainId, eth_getBalance or eth_blockNumber is
\* no hex number, the method is recorded as failed and no exception is in
\* flight: the run goes on.
C11_ParseFailureRecorded ==
    (LastMethodParsed /\ lastResp.kind = "bad_hex") =>
        (exc = "none" /\ LastEntry.status = "FAILED")

---------------------------------------------------------------------------
(* C12 *)

\* The four methods have been sent to endpoint e.
BatterySentTo(e) ==
    \A mth \in 1..NumMethods :
        \E k \in 1..Len(sent) : sent[k].endpoint = e /\ sent[k].method = Methods[mth]

\* C12: a diagnostic run that is not cancelled gets to its analysis with a
\* result recorded by every probe loop for every endpoint, and has sent the
\* battery to every endpoint.
C12_EveryEndpointGetsResults ==
    /\ (prog \in {"async", "sync"} /\ pc = "done" /\ exc # "KeyboardInterrupt") =>
         (analysed /\ \A e \in Endpoints : BatterySentTo(e))
    /\ Reported =>
         \A e \in Endpoints :
             /\ DnsStatus(e) # "NONE"
             /\ SslStatus(e) # "NONE"
             /\ \A mth \in 1..NumMethods : MethodEntry(e, mth).status # "NONE"

---------------------------------------------------------------------------
(* C13 *)

\* The run has ended through "except KeyboardInterrupt".
CancelledRun == prog \in {"async", "sync"} /\ pc = "done" /\ exc = "KeyboardInterrupt"

\* The lines of the diagnostic summary.
ReportLines ==
    {<<"issues_found", 0>>, <<"recommendations", 0>>, <<"all_passed", 0>>,
     <<"working_list", 0>>} \cup {<<"wallet_config", e>> : e \in Endpoints}

\* C13 as stated: a cancelled run ends with a report built from what was
\* collected, marked incomplete.
C13_CancelledRunReportsPartial ==
    CancelledRun => (analysed /\ <<"incomplete", 0>> \in printed)

\* C13: a cancelled run ends with the cancellation line and nothing else: no
\* results file, and, unless the interrupt came after the analysis had been
\* printed in full, no issue, no recommendation and no line of the summary.
C13_CancelledRunHasNoReport ==
    CancelledRun =>
        /\ <<"cancelled", 0>> \in printed
        /\ ~fileWritten
        /\ prog = "async" => ~analysed
        /\ ~analysed =>
             /\ issues = <<>>
             /\ recommendations = <<>>
             /\ printed \cap ReportLines = {}

\* A run cancelled after it had sent requests, ended without analysis.
C13_CancelledWithResultsInFlight ==
    /\ CancelledRun
    /\ Len(sent) >= NumMethods
    /\ ~analysed
    /\ prog = "async" /\ session = "closed"

---------------------------------------------------------------------------
(* C14 *)

\* The outcome recorded for the generic internet check.
InternetStatus ==
    IF prog = "sync" THEN console.internet.status ELSE results.internet.status

\* check_system_configuration found a proxy variable set.
ProxySet == prog = "async" /\ results.system_config.proxy

HasIssue(kind) == \E k \in 1..Len(issues) : issues[k].kind = kind

\* Every endpoint passed DNS, TLS and the four calls, with the expected chain id.
AllPass ==
    \A e \in Endpoints :
        /\ DnsStatus(e) = "OK"
        /\ SslStatus(e) = "OK"
        /\ AllCallsOK(e)
        /\ MethodEntry(e, 2).chain_id = ExpectedChainId

\* C14 as stated: when every endpoint passes every layer, all endpoints are
\* working and there is no issue, whatever the internet check and the proxy
\* variables gave.
C14_AllPassNoIssues ==
    (Reported /\ AllPass) => (issues = <<>> /\ \A e \in Endpoints : Working(e))

\* C14: when every endpoint passes every layer, all endpoints are working,
\* and there is no issue exactly when the internet check passed too and
\* network_debug.py found no proxy variable; a failed internet check and a
\* proxy each add their issue.
C14_AllPassIssuesOfSystemOnly ==
    (Reported /\ AllPass) =>
        /\ \A e \in Endpoints : Working(e)
        /\ issues = <<>> <=> (InternetStatus = "OK" /\ ~ProxySet)
        /\ HasIssue("internet") <=> InternetStatus # "OK"
        /\ HasIssue("proxy") <=> ProxySet
        /\ ~HasIssue("dns") /\ ~HasIssue("ssl") /\ ~HasIssue("no_rpc")

\* Every endpoint passes, the internet check failed and a proxy is set: two
\* issues.
C14_AllPassYetTwoIssues ==
    /\ Reported /\ AllPass
    /\ InternetStatus = "FAILED"
    /\ ProxySet
    /\ Len(issues) = 2

---------------------------------------------------------------------------
(* C15 *)

\* C15: the analysis emits at most one issue of each kind, however many
\* endpoints are affected; when DNS fails for every endpoint there is exactly
\* one DNS issue.
C15_OneIssuePerKind ==
    /\ \A j \in 1..Len(issues) : \A k \in 1..Len(issues) :
           j # k => issues[j].kind # issues[k].kind
    /\ (Reported /\ \A e \in Endpoints : DnsStatus(e) = "FAILED") =>
           Cardinality({k \in 1..Len(issues) : issues[k].kind = "dns"}) = 1

\* DNS failed for every endpoint and the report has its one DNS issue.
C15_AllDnsFailedOneIssue ==
    /\ Reported
    /\ \A e \in Endpoints : DnsStatus(e) = "FAILED"
    /\ Cardinality({k \in 1..Len(issues) : issues[k].kind = "dns"}) = 1

---------------------------------------------------------------------------
(* C16 *)

\* The recommendations that go with an issue of a kind, by their numbers.
RecsFor(kind) ==
    CASE kind = "internet" -> {1, 2}
      [] kind = "dns" -> {3, 4}
      [] kind = "ssl" -> {5, 6}
      [] kind = "no_rpc" -> {7, 8}
      [] OTHER -> {9}

\* C16: every issue reported has at least one of its recommendations in the
\* recommendation list, so the list is empty only if there is no issue.
C16_EveryIssueHasRecommendation ==
    /\ \A k \in 1..Len(issues) : RecsFor(issues[k].kind) \cap Range(recommendations) # {}
    /\ recommendations = <<>> => issues = <<>>

\* The proxy issue alone, with its recommendation.
C16_ProxyIssueWithRecommendation ==
    /\ analysed
    /\ Len(issues) = 1
    /\ HasIssue("proxy")
    /\ recommendations = <<9>>

---------------------------------------------------------------------------
(* C17 *)

\* The place of an issue kind in the order analyze_results appends them.
KindRank(kind) ==
    CASE kind = "internet" -> 1
      [] kind = "dns" -> 2
      [] kind = "ssl" -> 3
      [] kind = "no_rpc" -> 4
      [] OTHER -> 5

\* C17 as stated, for TLS: when the only endpoint whose TLS probe failed is
\* one whose DNS resolution failed, DNS is the cause reported and there is
\* no TLS finding.
C17_DnsFailureSuppressesTls ==
    Reported =>
        \A e \in Endpoints :
            (/\ DnsStatus(e) = "FAILED"
             /\ SslStatus(e) = "FAILED"
             /\ \A o \in Endpoints \ {e} : SslStatus(o) = "OK")
            => (HasIssue("dns") /\ ~HasIssue("ssl"))

\* C17: the analysis gives no cause per endpoint; it appends one issue for
\* each layer in which something failed, in the order internet, DNS, TLS,
\* RPC, proxy, and each layer is judged by itself: in network_debug.py a
\* layer has its issue exactly when it failed for some endpoint (RPC: when
\* no endpoint is working), in simple_network_test.py when it failed for all.
C17_IssuePerFailedLayer ==
    /\ \A j \in 1..Len(issues) : \A k \in 1..Len(issues) :
           j < k => KindRank(issues[j].kind) < KindRank(issues[k].kind)
    /\ Reported => (HasIssue("no_rpc") <=> working_endpoints = <<>>)
    /\ AsyncReported =>
         /\ HasIssue("dns") <=> \E e \in Endpoints : DnsStatus(e) = "FAILED"
         /\ HasIssue("ssl") <=> \E e \in Endpoints : SslStatus(e) = "FAILED"
    /\ SyncReported =>
         /\ HasIssue("dns") <=> \A e \in Endpoints : DnsStatus(e) = "FAILED"
         /\ HasIssue("ssl") <=> \A e \in Endpoints : SslStatus(e) = "FAILED"

\* DNS and TLS both failed for one endpoint, and both issues are reported.
C17_DnsAndTlsIssuesTogether ==
    /\ Reported
    /\ \E e \in Endpoints : DnsStatus(e) = "FAILED" /\ SslStatus(e) = "FAILED"
    /\ HasIssue("dns") /\ HasIssue("ssl")

---------------------------------------------------------------------------
(* C18 *)

\* C18: an endpoint that passed the internet check, DNS and TLS but has an
\* RPC method failing gets an RPC issue reported, also when another endpoint
\* works, and "All network tests passed!" is not printed while an endpoint is
\* not working.
C18_RpcFailureAlwaysReported ==
    Reported =>
        /\ \A e \in Endpoints :
               (/\ InternetStatus = "OK"
                /\ DnsStatus(e) = "OK"
                /\ SslStatus(e) = "OK"
                /\ \E mth \in 1..NumMethods : MethodEntry(e, mth).status = "FAILED")
               => HasIssue("no_rpc")
        /\ (\E e \in Endpoints : ~Working(e)) => <<"all_passed", 0>> \notin printed

---------------------------------------------------------------------------
(* C19 *)

\* The script is running its steps: no exception has left them.
Running == prog \in {"async", "sync"} /\ exc = "none" /\ pc # "done"

InternetProbed == InternetStatus # "NONE"

\* The DNS probe of endpoint e has finished: its entry is in the loop's dict
\* or in self.results.
DnsProbed(e) ==
    IF prog = "sync" THEN console.dns[e].status # "NONE"
    ELSE results.dns[e].status # "NONE" \/ dns_results[e].status # "NONE"

SslProbed(e) ==
    IF prog = "sync" THEN console.ssl[e].status # "NONE"
    ELSE results.ssl[e].status # "NONE" \/ ssl_results[e].status # "NONE"

RpcCalled(e) == \E k \in 1..Len(sent) : sent[k].endpoint = e

\* C19 as stated: for each endpoint DNS, then TLS, then the HTTP
\* reachability check, then the RPC calls.
C19_PerEndpointLayerOrder ==
    Running =>
        \A e \in Endpoints :
            /\ SslProbed(e) => DnsProbed(e)
            /\ InternetProbed => SslProbed(e)
            /\ RpcCalled(e) => InternetProbed

\* C19: the HTTP reachability check runs once and first; then the DNS probes
\* of all endpoints, then the TLS probes of all endpoints, then the RPC
\* calls: so for each endpoint DNS comes before TLS and TLS before RPC.
C19_LayerByLayerOrder ==
    Running =>
        \A e \in Endpoints :
            /\ DnsProbed(e) => InternetProbed
            /\ SslProbed(e) => \A o \in Endpoints : DnsProbed(o)
            /\ RpcCalled(e) => \A o \in Endpoints : SslProbed(o)

\* The first RPC call has gone out, after every probe of every endpoint.
C19_FirstCallAfterAllProbes ==
    /\ Running
    /\ Len(sent) = 1
    /\ InternetProbed
    /\ \A e \in Endpoints : DnsProbed(e) /\ SslProbed(e)

---------------------------------------------------------------------------
(* C20 *)

---------------------------------------------------------------------------
(* C21 *)

\* C21: once the analysis has run, every probe of every endpoint has its
\* result, the whole battery has been sent, the system configuration has been
\* read, and the script is past every probe step: nothing is recorded after
\* the analysis.
C21_AnalysisAfterAllProbes ==
    analysed =>
        /\ prog \in {"async", "sync"}
        /\ pc \in {"finally", "save", "handler", "done", "s_curl"}
        /\ Len(sent) = Len(FullBattery)
        /\ dns_results = EmptyProbes /\ ssl_results = EmptyProbes /\ rpc_results = EmptyRpc
        /\ Reported =>
             /\ InternetProbed
             /\ prog = "async" => results.system_config.present
             /\ \A e \in Endpoints :
                    /\ DnsStatus(e) # "NONE"
                    /\ SslStatus(e) # "NONE"
                    /\ \A mth \in 1..NumMethods : MethodEntry(e, mth).status # "NONE"

\* An analysis made of results that include a failed method of the last
\* endpoint.
C21_AnalysedWithLastEndpointFailing ==
    /\ Reported
    /\ Len(sent) = Len(FullBattery)
    /\ MethodEntry(NumEndpoints, NumMethods).status = "FAILED"

---------------------------------------------------------------------------
(* C22 *)

\* C22: no probe call stays blocked: each returns, with a result or an
\* error, within its timeout.
C22_NoProbeBlocks == pc # "blocked"

---------------------------------------------------------------------------
(* C23 *)

\* C23: each result slot is written exactly once: no entry of the DNS
\* results is assigned to a second time.
C23_SlotsWrittenOnce == \A e \in Endpoints : dns_writes[e] <= 1

---------------------------------------------------------------------------
(* C24 *)

\* C24 as stated: no two requests of a run carry the same id.
C24_RequestIdsUnique ==
    \A j, k \in 1..Len(sent) : j # k => sent[j].id # sent[k].id

\* C24, amended: every request of a run carries the same id, the one the
\* payloads are written with.
C24_EveryRequestSameId ==
    \A k \in 1..Len(sent) : sent[k].id = RequestId

\* Requests have gone to two endpoints, for two methods.
C24_RequestsToTwoEndpoints ==
    /\ Len(sent) >= 2
    /\ sent[1].endpoint # sent[Len(sent)].endpoint
    /\ sent[1].method # sent[Len(sent)].method

---------------------------------------------------------------------------
(* C25 *)

\* C25: whichever reads of the environment inspection fail, the inspection
\* returns normally and the analysis is the next step (only an interrupt
\* ends the run before it); network_debug.py then has its system_config
\* recorded, with the keys of the reads that succeeded.
C25_InspectionBestEffort ==
    [][(pc \in {"sysconfig", "s_sysconfig"} /\ exc' # "KeyboardInterrupt") =>
          /\ exc' = "none"
          /\ pc' = IF prog = "async" THEN "analyze" ELSE "s_analyze"
          /\ prog = "async" => results'.system_config.present]_vars

\* An analysis after an inspection whose first read failed and whose last
\* read succeeded.
C25_LaterReadAfterFailedRead ==
    /\ AsyncReported /\ analysed
    /\ ~results.system_config.default_route
    /\ results.system_config.firewall

---------------------------------------------------------------------------
(* C26 *)

\* What simple_network_test.py printed for its probes and calls, as the
\* results network_debug.py's analysis reads.
ConsoleAsResults ==
    [internet |-> console.internet, dns |-> console.dns, ssl |-> console.ssl,
     rpc_endpoints |-> console.rpc_endpoints, system_config |-> NoSystemConfig]

IssueKinds(iss) == {iss[k].kind : k \in 1..Len(iss)}

\* C26: on the outcomes a run of simple_network_test.py recorded, the
\* analysis of network_debug.py gives the working endpoints and the issue
\* kinds that simple_network_test.py reported.
C26_BothScriptsAgree ==
    SyncReported =>
        /\ AsyncWorking(ConsoleAsResults) = working_endpoints
        /\ IssueKinds(AsyncIssues(ConsoleAsResults)) = IssueKinds(issues)

---------------------------------------------------------------------------
(* C27 *)

\* The first endpoint of the configured list that is in the working list.
FirstWorking == CHOOSE e \in Range(working_endpoints) :
                    \A f \in Range(working_endpoints) : e <= f

\* C27: the working list names configured endpoints, none twice, and the
\* wallet configuration that is printed names the first of them in the order
\* of the configured list and no other, whatever the response times.
C27_RecommendsFirstInInputOrder ==
    analysed =>
        /\ Range(working_endpoints) \subseteq Endpoints
        /\ Cardinality(Range(working_endpoints)) = Len(working_endpoints)
        /\ \A e \in Endpoints :
               <<"wallet_config", e>> \in printed <=>
                   (working_endpoints # <<>> /\ e = FirstWorking)
        /\ working_endpoints # <<>> => working_endpoints[1] = FirstWorking

\* Two working endpoints; the one recommended is the slower of the two.
C27_SlowerEndpointRecommended ==
    /\ analysed
    /\ Len(working_endpoints) >= 2
    /\ \E e \in Endpoints :
          /\ <<"wallet_config", e>> \in printed
          /\ \E f \in Range(working_endpoints) : ResponseTime(f) < ResponseTime(e)

---------------------------------------------------------------------------
(* C28 *)

\* C28: once run_all_tests is past its finally clause, however it got there,
\* the session is not open; the results file is written only with the
\* session closed.
C28_SessionClosedOnEveryExit ==
    /\ (prog = "async" /\ pc \in {"save", "handler", "done"}) => session # "open"
    /\ (prog = "async" /\ pc = "save") => session = "closed"
    /\ fileWritten => session = "closed"

\* A run that an exception ended after the session was made: the session
\* is closed, no file is written.
C28_ClosedAfterException ==
    /\ prog = "async" /\ pc = "done"
    /\ exc # "none" /\ ~analysed
    /\ session = "closed" /\ ~fileWritten

---------------------------------------------------------------------------
(* C29 *)

\* C29: the summary says that all tests passed only when an endpoint is
\* working; with no working endpoint the issues hold the one for it; the
\* wallet configuration is printed exactly when an endpoint is working.
C29_AllPassedNeedsWorkingEndpoint ==
    analysed =>
        /\ <<"all_passed", 0>> \in printed => working_endpoints # <<>>
        /\ working_endpoints = <<>> => HasIssue("no_rpc")
        /\ (\E e \in Endpoints : <<"wallet_config", e>> \in printed)
               <=> working_endpoints # <<>>

\* No endpoint works although the internet check, DNS and TLS passed: the
\* missing endpoint is the only issue.
C29_OnlyIssueNoWorkingEndpoint ==
    /\ analysed
    /\ working_endpoints = <<>>
    /\ Len(issues) = 1
    /\ <<"all_passed", 0>> \notin printed

---------------------------------------------------------------------------
(* C30 *)

\* C30: network_debug.py writes its results file only in a run whose steps
\* and analysis all completed with no exception; a run that an exception
\* ended has written no file and printed no 'saved' line, and its results
\* are gone.
C30_FileOnlyAfterCompleteRun ==
    /\ fileWritten =>
          /\ prog = "async" /\ pc = "done"
          /\ exc = "none" /\ analysed
          /\ Len(sent) = Len(FullBattery)
    /\ (pc = "done" /\ exc # "none") =>
          /\ ~fileWritten
          /\ <<"saved", 0>> \notin printed
          /\ results = EmptyResults

\* The file written by a run whose analysis found issues.
C30_FileWrittenWithIssues ==
    /\ fileWritten
    /\ analysed
    /\ issues # <<>>

=============================================================================
